---- MODULE Spec2Model ----
(***************************************************************************)
(* The vectorization algorithm of c64ttf.py (vectorizeGlyph and the four   *)
(* stages it calls: unpackChar, generateEdges, scaleEdges, mergeContours). *)
(* A point is <<x, y>>, an edge is <<start, end>>, a contour is a sequence *)
(* of points.  Python lists are sequences; Python index i is index i + 1.  *)
(***************************************************************************)
EXTENDS Integers, Sequences, FiniteSets

\* ---------------------------------------------------------------- bounds
MaxRows == 3
MaxScale == 2
MaxDescent == 1
\* Rows of the grids that hold one rectangle or two cells.
MaxHeight == 4
\* Rows of the bitmaps whose edges are presented to mergeContours permuted.
MaxMergeRows == 2
\* Edges in a list given to mergeContours directly.
MaxEdges == 5

\* Number of bits unpackChar reads from each row: range(7, -1, -1).
Width == 8

\* Row bytes the general specification draws from: the empty row, the full
\* row, a pixel on the right border, and patterns over the three left-most
\* columns (.X., X.., X.X, XXX).
RowValues == {0, 1, 32, 64, 160, 224, 255}

VARIABLES glyphData, pixelSize, descent, bitmap, edges, scaledEdges,
          edgeList, contours, contour, start, current, result, pc

vars == <<glyphData, pixelSize, descent, bitmap, edges, scaledEdges,
          edgeList, contours, contour, start, current, result, pc>>

\* --------------------------------------------------------------- helpers
Range(s) == {s[i] : i \in 1..Len(s)}

Front(s) == SubSeq(s, 1, Len(s) - 1)

Pow2(n) == 2 ^ n

\* list.remove(e): removes the first element equal to e.
RemoveFirst(s, e) ==
    LET k == CHOOSE i \in 1..Len(s) : s[i] = e /\ \A j \in 1..(i - 1) : s[j] # e
    IN  SubSeq(s, 1, k - 1) \o SubSeq(s, k + 1, Len(s))

\* Python's list comparison of two edges [[x0, y0], [x1, y1]]: lexicographic.
EdgeLess(a, b) ==
    LET fa == <<a[1][1], a[1][2], a[2][1], a[2][2]>>
        fb == <<b[1][1], b[1][2], b[2][1], b[2][2]>>
    IN  \E k \in 1..4 : fa[k] < fb[k] /\ \A j \in 1..(k - 1) : fa[j] = fb[j]

\* ------------------------------------------------------- vectorizeGlyph
\* Variant: only None is caught, an input without rows goes on.
noGlyphDataNoneOnly(g) == g.none

\* glyphData is None or len(glyphData) == 0
noGlyphData(g) == g.none \/ Len(g.rows) = 0

\* ----------------------------------------------------------- unpackChar
\* Variant: the rows are not reversed.
unpackCharTopFirst(rows) ==
    [y \in 1..Len(rows) |->
        [x \in 1..Width |-> ((rows[y] \div Pow2(Width - x)) % 2) = 1]]

\* Variant: the bits are read from bit 0 up, so bit 0 is the left-most column.
unpackCharLowBitFirst(rows) ==
    [y \in 1..Len(rows) |->
        [x \in 1..Width |->
            ((rows[Len(rows) + 1 - y] \div Pow2(x - 1)) % 2) = 1]]

unpackChar(rows) ==
    [y \in 1..Len(rows) |->
        [x \in 1..Width |->
            ((rows[Len(rows) + 1 - y] \div Pow2(Width - x)) % 2) = 1]]

\* -------------------------------------------------------- generateEdges
\* bitmap[y][x] with Python's 0-based indices
Pixel(b, x, y) == b[y + 1][x + 1]

\* Variant: the left edge is emitted whatever the neighbour is.
leftEdgeAlways(b, x, y) == << << <<x, y>>, <<x, y + 1>> >> >>

leftEdge(b, x, y) ==
    IF x = 0 \/ ~Pixel(b, x - 1, y)
    THEN << << <<x, y>>, <<x, y + 1>> >> >> ELSE << >>

\* Variant: only the grid's border counts, not an unfilled neighbour above.
topEdgeBorderOnly(b, x, y) ==
    IF y = Len(b) - 1
    THEN << << <<x, y + 1>>, <<x + 1, y + 1>> >> >> ELSE << >>

topEdge(b, x, y) ==
    IF y = Len(b) - 1 \/ ~Pixel(b, x, y + 1)
    THEN << << <<x, y + 1>>, <<x + 1, y + 1>> >> >> ELSE << >>

rightEdge(b, x, y) ==
    IF x = Len(b[1]) - 1 \/ ~Pixel(b, x + 1, y)
    THEN << << <<x + 1, y + 1>>, <<x + 1, y>> >> >> ELSE << >>

\* Variant: the bottom edge runs left to right.
bottomEdgeReversed(b, x, y) ==
    IF y = 0 \/ ~Pixel(b, x, y - 1)
    THEN << << <<x, y>>, <<x + 1, y>> >> >> ELSE << >>

bottomEdge(b, x, y) ==
    IF y = 0 \/ ~Pixel(b, x, y - 1)
    THEN << << <<x + 1, y>>, <<x, y>> >> >> ELSE << >>

pixelEdges(b, x, y) ==
    IF Pixel(b, x, y)
    THEN leftEdge(b, x, y) \o topEdge(b, x, y) \o rightEdge(b, x, y) \o bottomEdge(b, x, y)
    ELSE << >>

\* The two nested loops, cell i = y * width + x in scan order.
RECURSIVE edgesFrom(_, _)
edgesFrom(b, i) ==
    LET width == Len(b[1])
    IN  IF i >= Len(b) * width THEN << >>
        ELSE pixelEdges(b, i % width, i \div width) \o edgesFrom(b, i + 1)

generateEdges(b) == edgesFrom(b, 0)

\* ----------------------------------------------------------- scaleEdges
\* Variant: the row is subtracted from the descent.
scalePointFlipped(p, size, desc) == <<p[1] * size, (desc - p[2]) * size>>

\* Variant: the descent is subtracted after scaling.
scalePointDescentLast(p, size, desc) == <<p[1] * size, p[2] * size - desc>>

scalePoint(p, size, desc) == <<p[1] * size, (p[2] - desc) * size>>

scaleEdges(es, size, desc) ==
    [i \in 1..Len(es) |->
        <<scalePoint(es[i][1], size, desc), scalePoint(es[i][2], size, desc)>>]

\* -------------------------------------------------------- mergeContours
\* sorted(edges): insertion of each element after the elements not greater.
insertSorted(s, e) ==
    LET k == Cardinality({i \in 1..Len(s) : ~EdgeLess(e, s[i])})
    IN  SubSeq(s, 1, k) \o <<e>> \o SubSeq(s, k + 1, Len(s))

\* Variant: the edges are taken in the order given.
sortedAsGiven(es) == es

RECURSIVE sorted(_)
sorted(es) ==
    IF es = << >> THEN << >>
    ELSE insertSorted(sorted(Front(es)), es[Len(es)])

\* The frame of a mergeContours call: its locals and its position.
mergeEntry(es) ==
    [edgeList |-> sorted(es), contours |-> << >>, contour |-> << >>,
     start |-> << >>, current |-> << >>, pc |-> "outer"]

\* Variant: the loop stops while a last square of four edges is left.
moreContoursOverFour(list) == Len(list) > 4

\* while len(edgeList) > 1
moreContours(list) == Len(list) > 1

\* Variant: the seed is the last edge of the list, not the first.
outerStepLast(m) ==
    IF moreContours(m.edgeList)
    THEN LET s == m.edgeList[Len(m.edgeList)]
         IN  [m EXCEPT !.start = s,
                       !.edgeList = RemoveFirst(m.edgeList, s),
                       !.current = s,
                       !.contour = <<s[1], s[2]>>,
                       !.pc = "inner"]
    ELSE [m EXCEPT !.pc = "return"]

\* One evaluation of the outer loop's test: begin a contour, or return.
outerStep(m) ==
    IF moreContours(m.edgeList)
    THEN LET s == m.edgeList[1]
         IN  [m EXCEPT !.start = s,
                       !.edgeList = RemoveFirst(m.edgeList, s),
                       !.current = s,
                       !.contour = <<s[1], s[2]>>,
                       !.pc = "inner"]
    ELSE [m EXCEPT !.pc = "return"]

\* Variant: the candidates in reverse, so that [0] takes the last one.
candidatesLastFirst(list, cur) ==
    LET c == SelectSeq(list, LAMBDA e : e[1] = cur[2])
    IN  [i \in 1..Len(c) |-> c[Len(c) + 1 - i]]

\* [edge for edge in edgeList if edge[0] == current[1]]
candidates(list, cur) == SelectSeq(list, LAMBDA e : e[1] = cur[2])

\* Variant: compared with the end of the current edge, not its start.
collinearWithEnd(nxt, cur) == nxt[2][1] = cur[2][1] \/ nxt[2][2] = cur[2][2]

\* Variant: "and" for "or".
collinearBoth(nxt, cur) == nxt[2][1] = cur[1][1] /\ nxt[2][2] = cur[1][2]

\* Variant: only the x coordinates are compared.
collinearVertical(nxt, cur) == nxt[2][1] = cur[1][1]

\* next[1][0] == current[0][0] or next[1][1] == current[0][1]
collinear(nxt, cur) == nxt[2][1] = cur[1][1] \/ nxt[2][2] = cur[1][2]

\* Variant: the last point is kept.
closedContourWhole(c) == c

\* contours.append(contour[:-1])
closedContour(c) == Front(c)

\* One evaluation of the inner loop's test: consume an edge, or close.
innerStep(m) ==
    IF m.current[2] # m.start[1]
    THEN LET cands == candidates(m.edgeList, m.current)
         IN  IF cands = << >>
             THEN [m EXCEPT !.pc = "error"]
             ELSE LET nxt == cands[1]
                  IN  [m EXCEPT
                         !.contour = IF collinear(nxt, m.current)
                                     THEN [m.contour EXCEPT ![Len(m.contour)] = nxt[2]]
                                     ELSE Append(m.contour, nxt[2]),
                         !.current = nxt,
                         !.edgeList = RemoveFirst(m.edgeList, nxt)]
    ELSE [m EXCEPT !.contours = Append(m.contours, closedContour(m.contour)),
                   !.pc = "outer"]

mergeStep(m) == IF m.pc = "outer" THEN outerStep(m) ELSE innerStep(m)

\* mergeContours run to its end (a frame with pc "return" or "error").
RECURSIVE mergeRun(_)
mergeRun(m) == IF m.pc \in {"return", "error"} THEN m ELSE mergeRun(mergeStep(m))

mergeContours(es) == mergeRun(mergeEntry(es))

\* vectorizeGlyph as a function of its arguments: the contour list it
\* returns (the empty list also when mergeContours raises).
vectorizeGlyph(g, size, desc) ==
    IF noGlyphData(g) THEN << >>
    ELSE mergeContours(scaleEdges(generateEdges(unpackChar(g.rows)), size, desc)).contours

\* ------------------------------------------------------------ the machine
Frame ==
    [edgeList |-> edgeList, contours |-> contours, contour |-> contour,
     start |-> start, current |-> current, pc |-> pc]

SetFrame(m) ==
    /\ edgeList' = m.edgeList
    /\ contours' = m.contours
    /\ contour' = m.contour
    /\ start' = m.start
    /\ current' = m.current

Inputs == <<glyphData, pixelSize, descent>>

RowSeqs(n) == UNION {[1..k -> RowValues] : k \in 0..n}

InitLocals ==
    /\ bitmap = << >>
    /\ edges = << >>
    /\ scaledEdges = << >>
    /\ edgeList = << >>
    /\ contours = << >>
    /\ contour = << >>
    /\ start = << >>
    /\ current = << >>
    /\ result = << >>

Init ==
    /\ glyphData \in {[none |-> TRUE, rows |-> << >>]}
                     \cup {[none |-> FALSE, rows |-> r] : r \in RowSeqs(MaxRows)}
    /\ pixelSize \in 1..MaxScale
    /\ descent \in 0..MaxDescent
    /\ InitLocals
    /\ pc = "call"

\* vectorizeGlyph, lines 585-586: the guard on the input.
Call ==
    /\ pc = "call"
    /\ IF noGlyphData(glyphData)
       THEN /\ result' = << >>
            /\ pc' = "done"
       ELSE /\ result' = result
            /\ pc' = "unpack"
    /\ UNCHANGED <<Inputs, bitmap, edges, scaledEdges,
                   edgeList, contours, contour, start, current>>

Unpack ==
    /\ pc = "unpack"
    /\ bitmap' = unpackChar(glyphData.rows)
    /\ pc' = "generate"
    /\ UNCHANGED <<Inputs, edges, scaledEdges,
                   edgeList, contours, contour, start, current, result>>

\* len(bitmap[0]) raises IndexError on a bitmap without rows.
Generate ==
    /\ pc = "generate"
    /\ IF Len(bitmap) = 0
       THEN /\ edges' = edges
            /\ pc' = "error"
       ELSE /\ edges' = generateEdges(bitmap)
            /\ pc' = "scale"
    /\ UNCHANGED <<Inputs, bitmap, scaledEdges,
                   edgeList, contours, contour, start, current, result>>

Scale ==
    /\ pc = "scale"
    /\ scaledEdges' = scaleEdges(edges, pixelSize, descent)
    /\ pc' = "merge"
    /\ UNCHANGED <<Inputs, bitmap, edges,
                   edgeList, contours, contour, start, current, result>>

\* mergeContours, lines 632-633.
Sort ==
    /\ pc = "merge"
    /\ SetFrame(mergeEntry(scaledEdges))
    /\ pc' = "outer"
    /\ UNCHANGED <<Inputs, bitmap, edges, scaledEdges, result>>

\* The outer loop's test; on exit mergeContours and vectorizeGlyph return.
Outer ==
    /\ pc = "outer"
    /\ LET m == outerStep(Frame)
       IN  /\ SetFrame(m)
           /\ IF m.pc = "return"
              THEN /\ result' = m.contours
                   /\ pc' = "done"
              ELSE /\ result' = result
                   /\ pc' = m.pc
    /\ UNCHANGED <<Inputs, bitmap, edges, scaledEdges>>

\* The inner loop's test; the [0] of an empty candidate list raises.
Inner ==
    /\ pc = "inner"
    /\ LET m == innerStep(Frame)
       IN  /\ SetFrame(m)
           /\ pc' = m.pc
    /\ UNCHANGED <<Inputs, bitmap, edges, scaledEdges, result>>

Next == Call \/ Unpack \/ Generate \/ Scale \/ Sort \/ Outer \/ Inner

Spec == Init /\ [][Next]_vars

\* ------------------------------------------------ other sets of inputs
\* The row bytes of a grid of n rows whose filled cells are `cells`
\* (cell <<x, y>>, 0-indexed from the bottom-left; the first byte is the top
\* row and bit 7 the left-most column).
RECURSIVE RowByte(_, _, _)
RowByte(cells, y, x) ==
    IF x >= Width THEN 0
    ELSE (IF <<x, y>> \in cells THEN Pow2(Width - 1 - x) ELSE 0) + RowByte(cells, y, x + 1)

RowsOfCells(cells, n) == [i \in 1..n |-> RowByte(cells, n - i, 0)]

GridCells(n) == (0..(Width - 1)) \X (0..(n - 1))

RectCells(x0, x1, y0, y1) == (x0..x1) \X (y0..y1)

ShareSide(a, b) ==
    \/ a[1] = b[1] /\ (a[2] - b[2] = 1 \/ b[2] - a[2] = 1)
    \/ a[2] = b[2] /\ (a[1] - b[1] = 1 \/ b[1] - a[1] = 1)

\* One solid rectangle (a single cell included) in an otherwise empty grid.
InitRect ==
    /\ \E n \in 1..MaxHeight :
         \E x0 \in 0..(Width - 1), y0 \in 0..(n - 1) :
           \E x1 \in x0..(Width - 1), y1 \in y0..(n - 1) :
             glyphData = [none |-> FALSE,
                          rows |-> RowsOfCells(RectCells(x0, x1, y0, y1), n)]
    /\ pixelSize \in 1..MaxScale
    /\ descent \in 0..MaxDescent
    /\ InitLocals
    /\ pc = "call"

SpecRect == InitRect /\ [][Next]_vars

\* Two filled cells that share no side in an otherwise empty grid.
InitTwo ==
    /\ \E n \in 1..MaxHeight :
         \E a \in GridCells(n), b \in GridCells(n) :
           /\ a # b
           /\ ~ShareSide(a, b)
           /\ glyphData = [none |-> FALSE, rows |-> RowsOfCells({a, b}, n)]
    /\ pixelSize \in 1..MaxScale
    /\ descent \in 0..MaxDescent
    /\ InitLocals
    /\ pc = "call"

SpecTwo == InitTwo /\ [][Next]_vars

\* A 3x3 block of filled cells with its centre cell empty, anywhere in an
\* otherwise empty grid.
RingCells(x0, y0) == RectCells(x0, x0 + 2, y0, y0 + 2) \ {<<x0 + 1, y0 + 1>>}

InitRing ==
    /\ \E n \in 3..MaxHeight :
         \E x0 \in 0..(Width - 3), y0 \in 0..(n - 3) :
           glyphData = [none |-> FALSE, rows |-> RowsOfCells(RingCells(x0, y0), n)]
    /\ pixelSize \in 1..MaxScale
    /\ descent \in 0..MaxDescent
    /\ InitLocals
    /\ pc = "call"

SpecRing == InitRing /\ [][Next]_vars

\* Rows that may carry a bit above bit 7: the row bytes, and the same with
\* bit 8 set.
WideValues == RowValues \cup {v + Pow2(Width) : v \in RowValues}

InitWide ==
    /\ glyphData \in {[none |-> FALSE, rows |-> r] :
                        r \in UNION {[1..k -> WideValues] : k \in 1..MaxMergeRows}}
    /\ pixelSize \in 1..MaxScale
    /\ descent \in 0..MaxDescent
    /\ InitLocals
    /\ pc = "call"

SpecWide == InitWide /\ [][Next]_vars

\* mergeContours as a function of the order its edges come in: the edges of
\* a bitmap, scaled, presented reversed, rotated or with two neighbours
\* swapped.
Permuted(es, kind, k) ==
    LET n == Len(es)
    IN  CASE kind = "reverse" -> [i \in 1..n |-> es[n + 1 - i]]
          [] kind = "rotate"  -> [i \in 1..n |-> es[((i - 1 + k) % n) + 1]]
          [] kind = "swap"    -> [i \in 1..n |-> IF i = k THEN es[k + 1]
                                                 ELSE IF i = k + 1 THEN es[k]
                                                 ELSE es[i]]

Presentations(es) ==
    IF es = << >> THEN {es}
    ELSE {Permuted(es, "reverse", 0)}
         \cup {Permuted(es, "rotate", k) : k \in 0..(Len(es) - 1)}
         \cup {Permuted(es, "swap", k) : k \in 1..(Len(es) - 1)}

InitMerge ==
    /\ glyphData \in {[none |-> FALSE, rows |-> r] :
                        r \in RowSeqs(MaxMergeRows) \ {<< >>}}
    /\ pixelSize = MaxScale
    /\ descent \in 0..MaxDescent
    /\ bitmap = unpackChar(glyphData.rows)
    /\ edges = generateEdges(bitmap)
    /\ scaledEdges \in Presentations(scaleEdges(edges, pixelSize, descent))
    /\ edgeList = << >>
    /\ contours = << >>
    /\ contour = << >>
    /\ start = << >>
    /\ current = << >>
    /\ result = << >>
    /\ pc = "merge"

NextMerge == Sort \/ Outer \/ Inner

SpecMerge == InitMerge /\ [][NextMerge]_vars

\* mergeContours called on its own with any list of distinct unit edges
\* between the corners of a grid of two cells, at most MaxEdges of them,
\* listed from the greatest to the least.
EdgePoints == (0..2) \X (0..1)

UnitEdges ==
    {e \in EdgePoints \X EdgePoints :
        \/ e[1][1] = e[2][1] /\ (e[1][2] - e[2][2] = 1 \/ e[2][2] - e[1][2] = 1)
        \/ e[1][2] = e[2][2] /\ (e[1][1] - e[2][1] = 1 \/ e[2][1] - e[1][1] = 1)}

RECURSIVE Descending(_)
Descending(S) ==
    IF S = {} THEN << >>
    ELSE LET m == CHOOSE e \in S : \A f \in S \ {e} : EdgeLess(f, e)
         IN  <<m>> \o Descending(S \ {m})

InitEdges ==
    /\ glyphData = [none |-> TRUE, rows |-> << >>]
    /\ pixelSize = 1
    /\ descent = 0
    /\ bitmap = << >>
    /\ edges = << >>
    /\ \E S \in SUBSET UnitEdges :
         /\ Cardinality(S) <= MaxEdges
         /\ scaledEdges = Descending(S)
    /\ edgeList = << >>
    /\ contours = << >>
    /\ contour = << >>
    /\ start = << >>
    /\ current = << >>
    /\ result = << >>
    /\ pc = "merge"

SpecEdges == InitEdges /\ [][NextMerge]_vars

\* ------------------------------------------------- geometry of contours
Abs(n) == IF n < 0 THEN -n ELSE n

MinOf(S) == CHOOSE m \in S : \A n \in S : m <= n

MaxOf(S) == CHOOSE m \in S : \A n \in S : m >= n

Sign(n) == IF n < 0 THEN -1 ELSE IF n > 0 THEN 1 ELSE 0

\* The filled cells of an unpacked grid.
FilledCells(b) ==
    {c \in (0..(Width - 1)) \X (0..(Len(b) - 1)) : Pixel(b, c[1], c[2])}

\* The cells an input sets, read off the row bytes: cell <<x, y>> is bit
\* (7 - x) of the row y rows above the last one.
InputCells(rows) ==
    {c \in (0..(Width - 1)) \X (0..(Len(rows) - 1)) :
        (rows[Len(rows) - c[2]] \div Pow2(Width - 1 - c[1])) % 2 = 1}

\* The segments of a contour, the closing one (last point to first) last.
Segments(c) == [i \in 1..Len(c) |-> <<c[i], c[(i % Len(c)) + 1]>>]

\* A segment is axis-aligned, not degenerate, and a multiple of s long.
Straight(seg, s) ==
    LET dx == seg[2][1] - seg[1][1]
        dy == seg[2][2] - seg[1][2]
    IN  /\ (dx = 0) # (dy = 0)
        /\ dx % s = 0
        /\ dy % s = 0

\* The number of edges of length s a straight segment splits into, and the
\* j-th of them.
SegmentLength(seg, s) ==
    (Abs(seg[2][1] - seg[1][1]) + Abs(seg[2][2] - seg[1][2])) \div s

SegmentEdge(seg, s, j) ==
    LET ux == Sign(seg[2][1] - seg[1][1]) * s
        uy == Sign(seg[2][2] - seg[1][2]) * s
    IN  << <<seg[1][1] + ux * (j - 1), seg[1][2] + uy * (j - 1)>>,
           <<seg[1][1] + ux * j, seg[1][2] + uy * j>> >>

\* Every place <<contour, segment, j>> where the contours cover an edge.
Coverings(cs, s) ==
    UNION {UNION {{<<k, i, j>> : j \in 1..SegmentLength(Segments(cs[k])[i], s)} :
                    i \in 1..Len(cs[k])} :
             k \in 1..Len(cs)}

CoveredEdge(cs, s, o) == SegmentEdge(Segments(cs[o[1]])[o[2]], s, o[3])

AllStraight(cs, s) ==
    \A k \in 1..Len(cs) : \A i \in 1..Len(cs[k]) : Straight(Segments(cs[k])[i], s)

\* The ray from the centre of cell c towards smaller x crosses the segment
\* (coordinates doubled, so that the centre is integral).
Crosses(seg, c) ==
    LET cx == 2 * c[1] + 1
        cy == 2 * c[2] + 1
        px == 2 * seg[1][1]
        py == 2 * seg[1][2]
        qx == 2 * seg[2][1]
        qy == 2 * seg[2][2]
        d  == qy - py
        n  == px * d + (cy - py) * (qx - px)
    IN  /\ (py > cy) # (qy > cy)
        /\ IF d > 0 THEN n < cx * d ELSE n > cx * d

\* The cells inside the contours under the even-odd rule, looked for in the
\* grid of n rows and one cell around it.
EnclosedCells(cs, n) ==
    {c \in ((-1)..Width) \X ((-1)..n) :
        Cardinality({o \in UNION {{<<k, i>> : i \in 1..Len(cs[k])} : k \in 1..Len(cs)} :
                        Crosses(Segments(cs[o[1]])[o[2]], c)}) % 2 = 1}

Distinct(c) == \A i \in 1..Len(c) : \A j \in 1..Len(c) : i # j => c[i] # c[j]

Returned == pc = "done" /\ ~noGlyphData(glyphData)

\* A point of the grid in the output's coordinates.
Scaled(x, y) == <<x * pixelSize, (y - descent) * pixelSize>>

Corners(x0, x1, y0, y1) ==
    {Scaled(x0, y0), Scaled(x0, y1 + 1), Scaled(x1 + 1, y1 + 1), Scaled(x1 + 1, y0)}

\* ---------------------------------------------------------------- claims

\* C1: with scale 1 and descent 0, the cells enclosed under the even-odd
\* rule by the returned contours are exactly the filled cells of the
\* unpacked grid.
CoverageEquivalence ==
    (Returned /\ pixelSize = 1 /\ descent = 0)
        => EnclosedCells(result, Len(bitmap)) = FilledCells(bitmap)

\* A returned outline of a grid with a hole (an empty cell between four
\* filled ones) and a second contour.
CoverageWitness ==
    /\ Returned /\ pixelSize = 1 /\ descent = 0
    /\ Len(result) >= 2
    /\ \E c \in GridCells(Len(bitmap)) :
         /\ c \notin FilledCells(bitmap)
         /\ {<<c[1] - 1, c[2]>>, <<c[1] + 1, c[2]>>,
             <<c[1], c[2] - 1>>, <<c[1], c[2] + 1>>} \subseteq FilledCells(bitmap)
    /\ EnclosedCells(result, Len(bitmap)) = FilledCells(bitmap)

\* C2: the segments of the returned contours, closing segments included,
\* split into exactly the scaled edges of generateEdges: each edge is
\* covered once, nothing else is covered, and no edge stays in the pool.
BoundaryReconstructed ==
    Returned =>
        /\ AllStraight(result, pixelSize)
        /\ edgeList = << >>
        /\ \A o \in Coverings(result, pixelSize) :
             CoveredEdge(result, pixelSize, o) \in Range(scaledEdges)
        /\ \A e \in Range(scaledEdges) :
             Cardinality({o \in Coverings(result, pixelSize) :
                             CoveredEdge(result, pixelSize, o) = e}) = 1

\* A returned outline of several contours in which some segment covers
\* more than one edge.
BoundaryWitness ==
    /\ Returned
    /\ Len(result) >= 2
    /\ Cardinality(Coverings(result, pixelSize)) = Len(scaledEdges)
    /\ \E o \in Coverings(result, pixelSize) : o[3] >= 2
    /\ edgeList = << >>

\* C3: every segment of every returned contour, the closing one included,
\* is axis-aligned and a non-zero multiple of the scale long.
SegmentsStraight == Returned => AllStraight(result, pixelSize)

\* A returned contour whose closing segment is longer than one pixel.
SegmentsWitness ==
    /\ Returned
    /\ pixelSize > 1
    /\ \E k \in 1..Len(result) :
         LET segs == Segments(result[k])
         IN  /\ Straight(segs[Len(segs)], pixelSize)
             /\ SegmentLength(segs[Len(segs)], pixelSize) >= 2

\* C4: every returned contour has at least 3 points and no point twice.
ContourPointsDistinct ==
    Returned => \A k \in 1..Len(result) : Len(result[k]) >= 3 /\ Distinct(result[k])

\* C5: an input without a filled cell (None, no rows, or rows that are all
\* zero) raises nothing and returns the empty contour list.
EmptyInputEmptyResult ==
    (glyphData.none \/ \A i \in 1..Len(glyphData.rows) : glyphData.rows[i] = 0)
        => pc # "error" /\ (pc = "done" => result = << >>)

\* A grid of all-zero rows went through every stage and returned.
EmptyInputWitness ==
    /\ pc = "done"
    /\ ~glyphData.none
    /\ Len(glyphData.rows) >= 2
    /\ \A i \in 1..Len(glyphData.rows) : glyphData.rows[i] = 0
    /\ Len(bitmap) = Len(glyphData.rows)
    /\ result = << >>

\* C6: mergeContours returns the same contour list for every order in
\* which the same edges are presented to it.
OrderIndependent ==
    pc = "done"
        => result = mergeContours(scaleEdges(edges, pixelSize, descent)).contours

\* Edges presented in an order that is neither the scan order nor sorted,
\* merged into two or more contours.
OrderWitness ==
    /\ pc = "done"
    /\ scaledEdges # scaleEdges(edges, pixelSize, descent)
    /\ scaledEdges # sorted(scaledEdges)
    /\ Len(result) >= 2

\* C7: every output coordinate is a multiple of the scale, and dividing by
\* the scale and adding the descent gives a cell corner in [0..8] x [0..R].
ScalingInverse ==
    Returned =>
        \A k \in 1..Len(result) : \A i \in 1..Len(result[k]) :
            LET p == result[k][i]
            IN  /\ p[1] % pixelSize = 0
                /\ p[2] % pixelSize = 0
                /\ (p[1] \div pixelSize) \in 0..Width
                /\ ((p[2] \div pixelSize) + descent) \in 0..Len(glyphData.rows)

\* An outline scaled by more than 1 with a point below the baseline.
ScalingWitness ==
    /\ Returned
    /\ pixelSize > 1
    /\ descent > 0
    /\ \E k \in 1..Len(result) : \E i \in 1..Len(result[k]) : result[k][i][2] < 0

\* C8: a grid with one filled cell <<x, y>> returns one contour, the four
\* corners of the cell from the bottom-left one clockwise, scaled.
SinglePixel ==
    Returned =>
        \A c \in GridCells(Len(glyphData.rows)) :
            InputCells(glyphData.rows) = {c}
                => result = << <<Scaled(c[1], c[2]), Scaled(c[1], c[2] + 1),
                                 Scaled(c[1] + 1, c[2] + 1), Scaled(c[1] + 1, c[2])>> >>

\* A single cell in the right-most column, not in the bottom row, returned.
SinglePixelWitness ==
    /\ Returned
    /\ \E y \in 1..(Len(glyphData.rows) - 1) :
         InputCells(glyphData.rows) = {<<Width - 1, y>>}
    /\ Len(result) = 1

\* C9: a solid rectangle of filled cells in an otherwise empty grid (the
\* full grid included) returns one contour of 4 vertices, its corners.
SolidRectangle ==
    Returned =>
        LET cells == InputCells(glyphData.rows)
            xs == {c[1] : c \in cells}
            ys == {c[2] : c \in cells}
        IN  (cells # {} /\ cells = RectCells(MinOf(xs), MaxOf(xs), MinOf(ys), MaxOf(ys)))
                => /\ Len(result) = 1
                   /\ Len(result[1]) = 4
                   /\ Range(result[1]) = Corners(MinOf(xs), MaxOf(xs), MinOf(ys), MaxOf(ys))

\* The fully filled grid of several rows returned.
SolidRectangleWitness ==
    /\ Returned
    /\ Len(glyphData.rows) >= 2
    /\ InputCells(glyphData.rows) = GridCells(Len(glyphData.rows))
    /\ Len(edges) = 2 * (Width + Len(glyphData.rows))
    /\ Len(result) = 1

\* C10: two filled cells that share no side return two contours of 4
\* vertices, one around each cell.
TwoCells ==
    Returned =>
        \A a \in InputCells(glyphData.rows), b \in InputCells(glyphData.rows) :
            (a # b /\ InputCells(glyphData.rows) = {a, b} /\ ~ShareSide(a, b))
                => /\ Len(result) = 2
                   /\ Len(result[1]) = 4
                   /\ Len(result[2]) = 4
                   /\ {Range(result[1]), Range(result[2])}
                        = {Corners(a[1], a[1], a[2], a[2]), Corners(b[1], b[1], b[2], b[2])}

\* Two cells that touch at a corner only, returned.
TwoCellsWitness ==
    /\ Returned
    /\ \E a \in InputCells(glyphData.rows), b \in InputCells(glyphData.rows) :
         /\ InputCells(glyphData.rows) = {a, b}
         /\ b[1] = a[1] + 1
         /\ (b[2] = a[2] + 1 \/ b[2] = a[2] - 1)
    /\ Len(result) = 2

\* The edges of length s that contour c covers.
ContourEdges(c, s) ==
    {SegmentEdge(Segments(c)[i], s, j) :
        <<i, j>> \in UNION {{<<i2, j2>> : j2 \in 1..SegmentLength(Segments(c)[i2], s)} :
                              i2 \in 1..Len(c)}}

\* C11: a 3x3 block with its centre cell empty returns exactly two
\* contours, the boundary of the block and the boundary of the centre
\* cell, 4 vertices each, and no unit edge lies on both.
RingTwoContours ==
    Returned =>
        LET cells == InputCells(glyphData.rows)
            xs == {c[1] : c \in cells}
            ys == {c[2] : c \in cells}
        IN  (cells # {} /\ cells = RingCells(MinOf(xs), MinOf(ys)))
                => /\ Len(result) = 2
                   /\ Len(result[1]) = 4
                   /\ Len(result[2]) = 4
                   /\ Range(result[1])
                        = Corners(MinOf(xs), MinOf(xs) + 2, MinOf(ys), MinOf(ys) + 2)
                   /\ Range(result[2])
                        = Corners(MinOf(xs) + 1, MinOf(xs) + 1, MinOf(ys) + 1, MinOf(ys) + 1)
                   /\ AllStraight(result, pixelSize)
                   /\ ContourEdges(result[1], pixelSize)
                        \cap ContourEdges(result[2], pixelSize) = {}

\* A ring away from the left and bottom borders, returned with a second
\* contour that covers the four edges around the centre cell.
RingWitness ==
    /\ Returned
    /\ \E x0 \in 1..(Width - 3), y0 \in 1..(Len(glyphData.rows) - 3) :
         InputCells(glyphData.rows) = RingCells(x0, y0)
    /\ Len(result) = 2
    /\ Cardinality(ContourEdges(result[2], pixelSize)) = 4

\* C12: when the termination test is reached with exactly one edge left in
\* the pool, the call does not return a contour list: the leftover edge is
\* reported as an error.
LeftoverReported == pc = "done" => Len(edgeList) # 1

\* C13: the stitcher never goes on from a point where more than one
\* remaining edge starts: after a step of the inner loop has consumed an
\* edge, no other edge with the same start point is in the pool (such a
\* step would have been reported as a failure instead).
ContinuationUnique ==
    (pc = "inner" /\ current # start)
        => \A i \in 1..Len(edgeList) : edgeList[i][1] # current[1]

\* C14: an input with a row value that does not fit in 8 bits is reported
\* as an error: the call does not return contours for it.
WideRowReported ==
    (\E i \in 1..Len(glyphData.rows) : glyphData.rows[i] >= Pow2(Width))
        => pc # "done"

\* C15: for every bitmap with at least one row stitching never fails and
\* always ends: at every step of the inner loop some remaining edge starts
\* at the current edge's end point, every edge taken (as a seed or as a
\* continuation) leaves the pool one edge shorter, closing a contour leaves
\* the pool as it is, and the pool is empty on return.  The pool's length
\* thus bounds the steps that remain, which is why the loops end.
StitchingNeverStuck ==
    /\ pc # "error"
    /\ (pc = "inner" /\ current[2] # start[1])
           => candidates(edgeList, current) # << >>
    /\ Returned => edgeList = << >>

StitchingConsumes ==
    /\ (pc \in {"outer", "inner"} /\ pc' = "inner")
           => Len(edgeList') = Len(edgeList) - 1
    /\ (pc = "inner" /\ pc' = "outer") => edgeList' = edgeList

StitchingTerminates ==
    /\ []StitchingNeverStuck
    /\ [][StitchingConsumes]_vars

\* A run that closed one contour, went on through a point where two
\* remaining edges start, and returned with the pool empty.
StitchingWitness ==
    /\ Returned
    /\ Len(result) >= 2
    /\ edgeList = << >>
    /\ \E k \in 1..Len(result) : ~Distinct(result[k])

\* The four sides of cell c as directed edges: left, top, right, bottom.
SideEdges(c) ==
    [left   |-> << <<c[1], c[2]>>, <<c[1], c[2] + 1>> >>,
     top    |-> << <<c[1], c[2] + 1>>, <<c[1] + 1, c[2] + 1>> >>,
     right  |-> << <<c[1] + 1, c[2] + 1>>, <<c[1] + 1, c[2]>> >>,
     bottom |-> << <<c[1] + 1, c[2]>>, <<c[1], c[2]>> >>]

Neighbours(c) ==
    [left   |-> <<c[1] - 1, c[2]>>,
     top    |-> <<c[1], c[2] + 1>>,
     right  |-> <<c[1] + 1, c[2]>>,
     bottom |-> <<c[1], c[2] - 1>>]

Sides == {"left", "top", "right", "bottom"}

\* The cell on the right-hand side of a directed unit edge, and the one on
\* its left-hand side.
RightCell(e) ==
    CASE e[2][2] > e[1][2] -> <<e[1][1], e[1][2]>>
      [] e[2][2] < e[1][2] -> <<e[1][1] - 1, e[2][2]>>
      [] e[2][1] > e[1][1] -> <<e[1][1], e[1][2] - 1>>
      [] OTHER             -> <<e[2][1], e[1][2]>>

LeftCell(e) ==
    CASE e[2][2] > e[1][2] -> <<e[1][1] - 1, e[1][2]>>
      [] e[2][2] < e[1][2] -> <<e[1][1], e[2][2]>>
      [] e[2][1] > e[1][1] -> <<e[1][1], e[1][2]>>
      [] OTHER             -> <<e[2][1], e[1][2] - 1>>

\* C16: generateEdges emits, once each, exactly the sides of filled cells
\* whose neighbour is unfilled or outside the grid, in the directions left
\* up, top rightwards, right down, bottom leftwards; so every edge has a
\* filled cell on its right and none on its left.
EdgesAreOpenSides ==
    pc = "scale" =>
        LET filled == FilledCells(bitmap)
        IN  /\ Range(edges) = {SideEdges(c)[s] : <<c, s>> \in
                                  {cs \in filled \X Sides : Neighbours(cs[1])[cs[2]] \notin filled}}
            /\ Cardinality(Range(edges)) = Len(edges)
            /\ \A i \in 1..Len(edges) :
                 /\ RightCell(edges[i]) \in filled
                 /\ LeftCell(edges[i]) \notin filled

\* Edges were generated for a grid in which two filled cells share a side
\* and some filled cell lies on the right border.
EdgesWitness ==
    /\ pc = "scale"
    /\ \E a \in FilledCells(bitmap), b \in FilledCells(bitmap) : ShareSide(a, b)
    /\ \E c \in FilledCells(bitmap) : c[1] = Width - 1
    /\ Len(edges) >= 6

\* In a list of edges every edge is followed by one (an edge of the list
\* starts where it ends), and at every point as many edges end as start.
Balanced(es) ==
    /\ \A i \in 1..Len(es) : \E j \in 1..Len(es) : j # i /\ es[j][1] = es[i][2]
    /\ \A p \in {es[i][1] : i \in 1..Len(es)} \cup {es[i][2] : i \in 1..Len(es)} :
         Cardinality({i \in 1..Len(es) : es[i][2] = p})
            = Cardinality({i \in 1..Len(es) : es[i][1] = p})

\* C17: the edge list of generateEdges is balanced, and so is the pool
\* every time mergeContours is about to begin a contour or to return.
EdgesBalanced ==
    /\ pc = "scale" => Balanced(edges)
    /\ pc = "outer" => Balanced(edgeList)

\* The outer loop's test is reached with a contour closed and a balanced,
\* non-empty pool left, one of whose points has two edges starting at it.
BalancedWitness ==
    /\ pc = "outer"
    /\ Len(contours) >= 1
    /\ Len(edgeList) >= 4
    /\ Balanced(edgeList)
    /\ \E i \in 1..Len(edgeList), j \in 1..Len(edgeList) :
         i # j /\ edgeList[i][1] = edgeList[j][1]

\* Bit k of a row value.
Bit(v, k) == (v \div Pow2(k)) % 2

\* C18: unpackChar turns n rows into a grid of n rows of 8 columns where
\* grid[y][x] is true exactly when bit (7 - x) of input row (n - 1 - y) is
\* set (both 0-based): grid row 0 is the last input row, column 0 is bit 7.
UnpackedGrid ==
    pc = "generate" =>
        LET n == Len(glyphData.rows)
        IN  /\ Len(bitmap) = n
            /\ \A y \in 0..(n - 1) :
                 /\ Len(bitmap[y + 1]) = Width
                 /\ \A x \in 0..(Width - 1) :
                      bitmap[y + 1][x + 1]
                        = (Bit(glyphData.rows[(n - 1 - y) + 1], (Width - 1) - x) = 1)

\* A grid was unpacked whose rows differ from top to bottom and are not
\* symmetric from left to right.
UnpackedWitness ==
    /\ pc = "generate"
    /\ Len(glyphData.rows) >= 2
    /\ glyphData.rows[1] # glyphData.rows[Len(glyphData.rows)]
    /\ bitmap[1][1] /\ ~bitmap[1][Width]
    /\ ~bitmap[Len(bitmap)][1] /\ bitmap[Len(bitmap)][Width]

Horizontal(seg) == seg[1][2] = seg[2][2] /\ seg[1][1] # seg[2][1]

Vertical(seg) == seg[1][1] = seg[2][1] /\ seg[1][2] # seg[2][2]

\* At vertex i of contour c the segment that enters it (the closing
\* segment for the first vertex) and the one that leaves it are
\* perpendicular.
Corner(c, i) ==
    LET into == Segments(c)[((i + Len(c) - 2) % Len(c)) + 1]
        out  == Segments(c)[i]
    IN  \/ Horizontal(into) /\ Vertical(out)
        \/ Vertical(into) /\ Horizontal(out)

\* C19: every vertex of every returned contour, the first and the last
\* stored one included, is a corner between perpendicular segments; so no
\* three cyclically consecutive points are collinear and the number of
\* vertices is even.
VerticesAreCorners ==
    Returned =>
        \A k \in 1..Len(result) :
            /\ \A i \in 1..Len(result[k]) : Corner(result[k], i)
            /\ Len(result[k]) % 2 = 0

\* A returned contour of more than 4 vertices with a segment several
\* pixels long, i.e. with merged runs as well as turns.
CornersWitness ==
    /\ Returned
    /\ \E k \in 1..Len(result) :
         /\ Len(result[k]) >= 6
         /\ \E i \in 1..Len(result[k]) :
              SegmentLength(Segments(result[k])[i], pixelSize) >= 2
         /\ SegmentLength(Segments(result[k])[Len(result[k])], pixelSize) >= 2

\* C20: the contour list returned for scale s and descent d is the one
\* returned for scale 1 and descent 0 with every point <<x, y>> replaced by
\* <<x * s, (y - d) * s>>: same contours, same order, same points.
ScalingCommutes ==
    Returned =>
        LET unit == vectorizeGlyph(glyphData, 1, 0)
        IN  result = [k \in 1..Len(unit) |->
                        [i \in 1..Len(unit[k]) |-> Scaled(unit[k][i][1], unit[k][i][2])]]

\* Several contours returned for a scale above 1 and a descent above 0.
ScalingCommutesWitness ==
    /\ Returned
    /\ pixelSize > 1
    /\ descent > 0
    /\ Len(result) >= 2
    /\ result # vectorizeGlyph(glyphData, 1, 0)

\* Lexicographic order of points: by x, then by y.
PointLess(p, q) == p[1] < q[1] \/ (p[1] = q[1] /\ p[2] < q[2])

\* C21: contours are emitted in strictly increasing lexicographic order of
\* their first points, and the first point of a contour is its least point:
\* it is the start of the seed edge, which was the least edge of the pool
\* when the contour was begun, and it stays first while the contour grows
\* and when it is closed.
ContoursInOrder ==
    /\ pc = "inner" =>
          /\ contour[1] = start[1]
          /\ \A i \in 1..Len(edgeList) : EdgeLess(start, edgeList[i])
    /\ (pc = "outer" /\ contours # << >>) => contours[Len(contours)][1] = start[1]
    /\ Returned =>
          /\ \A k \in 1..(Len(result) - 1) : PointLess(result[k][1], result[k + 1][1])
          /\ \A k \in 1..Len(result) : \A i \in 2..Len(result[k]) :
                PointLess(result[k][1], result[k][i])

\* Three or more contours returned, one of them with a merged run of
\* edges, for an input whose scan order is not the sorted order.
ContoursInOrderWitness ==
    /\ Returned
    /\ Len(result) >= 3
    /\ scaledEdges # sorted(scaledEdges)
    /\ \E k \in 1..Len(result) : \E i \in 1..Len(result[k]) :
         SegmentLength(Segments(result[k])[i], pixelSize) >= 2

====
